---- MODULE Spec2Model ----
(***************************************************************************)
(* Model of the property lookup backend of the voice agent:                *)
(*   src/properties.py  load_properties_from_db, find_property,            *)
(*                      get_all_properties, get_property_details,          *)
(*                      check_availability                                 *)
(*   src/agent.py       the four tools of MTRAgent and the lead list       *)
(*                                                                         *)
(* A Python str is a sequence of one-character strings, so that lower(),   *)
(* `in`, startswith(), replace(), title() and join() are computed and not  *)
(* assumed.  A Python dict is a sequence of <<key, value>> pairs with      *)
(* distinct keys, in insertion order.                                      *)
(***************************************************************************)
EXTENDS Naturals, Sequences, FiniteSets, TLC

VARIABLES DATABASE_URL, table, leads, pc, out, completed

vars == <<DATABASE_URL, table, leads, pc, out, completed>>

(***************************************************************************)
(* Bounds of the model.                                                    *)
(***************************************************************************)
MaxRows == 3
NumSessions == 2
MaxLeads == 2

(***************************************************************************)
(* Python values.                                                          *)
(***************************************************************************)
\* None: the one-element sequence whose element is no character.
None == <<"None">>

UpperChars == <<"A","B","C","D","E","F","G","H","I","J","K","L","M","N","O","P","Q","R","S","T","U","V","W","X","Y","Z">>
LowerChars == <<"a","b","c","d","e","f","g","h","i","j","k","l","m","n","o","p","q","r","s","t","u","v","w","x","y","z">>
OtherChars == {" ",",",".","'","$","_","-",":","@","?","\n","0","1","2","3","4","5","6","7","8","9","(",")","/"}

Letters == 1..Len(UpperChars)
Char == {UpperChars[i] : i \in Letters} \cup {LowerChars[i] : i \in Letters} \cup OtherChars

IsUpper(c) == \E i \in Letters : UpperChars[i] = c
IsLower(c) == \E i \in Letters : LowerChars[i] = c
IsCased(c) == IsUpper(c) \/ IsLower(c)
lower_char(c) == IF IsUpper(c) THEN LowerChars[CHOOSE i \in Letters : UpperChars[i] = c] ELSE c
upper_char(c) == IF IsLower(c) THEN UpperChars[CHOOSE i \in Letters : LowerChars[i] = c] ELSE c

\* A str: every element is a character.
IsStr(s) == \A i \in 1..Len(s) : s[i] \in Char

\* str.lower(), character by character
lower(s) == [i \in 1..Len(s) |-> lower_char(s[i])] \o << >>

\* `t in s` for two str
contains(s, t) ==
    \E i \in 0..(Len(s) - Len(t)) : \A j \in 1..Len(t) : s[i + j] = t[j]

\* str.startswith(t)
startswith(s, t) == Len(s) >= Len(t) /\ \A j \in 1..Len(t) : s[j] = t[j]

\* str.replace(old, new) for a one-character old
RECURSIVE replace(_, _, _)
replace(s, old, new) ==
    IF s = << >> THEN << >>
    ELSE (IF Head(s) = old THEN new ELSE <<Head(s)>>) \o replace(Tail(s), old, new)

\* str.title(): a cased character is upper-cased after an uncased one (or at
\* the start) and lower-cased after a cased one.
title(s) ==
    [i \in 1..Len(s) |->
        IF i > 1 /\ IsCased(s[i - 1]) THEN lower_char(s[i]) ELSE upper_char(s[i])] \o << >>

\* sep.join(list)
RECURSIVE join(_, _)
join(sep, list) ==
    IF list = << >> THEN << >>
    ELSE IF Len(list) = 1 THEN list[1]
    ELSE list[1] \o sep \o join(sep, Tail(list))

\* dict: key in d, d.get(key, default), d[key] = value, list(d.values())
DictHas(d, key) == \E i \in 1..Len(d) : d[i][1] = key
DictIndex(d, key, default) ==
    IF DictHas(d, key) THEN d[CHOOSE i \in 1..Len(d) : d[i][1] = key][2] ELSE <<"KeyError">>
DictGet(d, key, default) ==
    IF DictHas(d, key) THEN d[CHOOSE i \in 1..Len(d) : d[i][1] = key][2] ELSE default
DictSet(d, key, value) ==
    IF DictHas(d, key)
    THEN [d EXCEPT ![CHOOSE i \in 1..Len(d) : d[i][1] = key] = <<key, value>>]
    ELSE Append(d, <<key, value>>)
DictValues(d) == [i \in 1..Len(d) |-> d[i][2]]

\* The absent record (find_property's None), shaped like a record.
NoRecord == [id |-> None, system |-> << >>, context |-> << >>]

(***************************************************************************)
(* load_properties_from_db                                                 *)
(***************************************************************************)
\* The outcomes of one connect-query cycle against the backing store.
FetchConds == {"ok", "connect_error", "query_error"}

\* get_db_connection: None without DATABASE_URL or when connect raises.
get_db_connection(url, cond) ==
    IF ~url THEN None
    ELSE IF cond = "connect_error" THEN None
    ELSE <<"conn">>

\* key[1:]: the key without its first character
RECURSIVE lstrip(_, _)
lstrip(s, c) == IF s # << >> /\ Head(s) = c THEN lstrip(Tail(s), c) ELSE s
clean_key_lstrip(key) == lstrip(key, "_")
clean_key(key) == Tail(key)

\* The fresh entry of properties_map for a propertyId seen for the first time.
new_property(prop_id) == [id |-> prop_id, system |-> << >>, context |-> << >>]

\* One row into properties_map[prop_id]: "system" under the cleaned key when
\* the key starts with the marker, "context" under the key otherwise.
store_row(rec, key, value) ==
    IF startswith(key, <<"_">>)
    THEN [rec EXCEPT !.system = DictSet(@, clean_key(key), value)]
    ELSE [rec EXCEPT !.context = DictSet(@, key, value)]

\* The body of the loop for one row.  key.startswith raises on a key that is
\* None (a NULL of the key column), after the row's propertyId was entered.
group_row(properties_map, r) ==
    LET prop_id == r.propertyId
        map1 == IF DictHas(properties_map, prop_id) THEN properties_map
                ELSE DictSet(properties_map, prop_id, new_property(prop_id))
    IN  IF r.key = None THEN [raised |-> TRUE, map |-> map1]
        ELSE [raised |-> FALSE,
              map |-> DictSet(map1, prop_id,
                              store_row(DictGet(map1, prop_id, NoRecord), r.key, r.value))]

\* The loop over the fetched rows, from row i on; it ends at the first row
\* that raises, with the map built so far.
RECURSIVE group_rows(_, _, _)
group_rows(rows, i, properties_map) ==
    IF i > Len(rows) THEN [raised |-> FALSE, map |-> properties_map]
    ELSE LET step == group_row(properties_map, rows[i])
         IN  IF step.raised THEN step ELSE group_rows(rows, i + 1, step.map)

\* The except branch: whatever was built is dropped.
return_partial(properties_map) == DictValues(properties_map)
on_load_error(properties_map) == << >>

\* load_properties_from_db on a store that would answer the query with rows.
load_properties_from_db(url, cond, rows) ==
    IF get_db_connection(url, cond) = None THEN << >>
    ELSE IF cond = "query_error" THEN on_load_error(<< >>)
    ELSE LET g == group_rows(rows, 1, << >>)
         IN  IF g.raised THEN on_load_error(g.map) ELSE DictValues(g.map)

(***************************************************************************)
(* find_property                                                           *)
(***************************************************************************)
\* sys.get(key, default): the attribute, or the default when it is absent.
sys_get(sys, key, default) == DictGet(sys, key, default)

\* The five tests find_property makes on one record, in their order; the
\* record is returned by the first that holds.
matches(p, query_lower) ==
    LET sys == p.system
        nickname == lower(sys_get(sys, <<"n","i","c","k","n","a","m","e">>, << >>))
        city == lower(sys_get(sys, <<"c","i","t","y">>, << >>))
        name == lower(sys_get(sys, <<"n","a","m","e">>, << >>))
        bedrooms == lower(sys_get(sys, <<"b","e","d","r","o","o","m","s">>, << >>))
    IN  \/ query_lower = nickname
        \/ city # << >> /\ (contains(city, query_lower) \/ contains(query_lower, city))
        \/ name # << >> /\ contains(name, query_lower)
        \/ bedrooms # << >> /\ (contains(bedrooms, query_lower) \/ contains(query_lower, bedrooms))
        \/ contains(query_lower, <<"s","t","u","d","i","o">>) /\ bedrooms = <<"s","t","u","d","i","o">>
        \/ (contains(query_lower, <<"1">>) \/ contains(query_lower, <<"o","n","e">>)) /\ bedrooms = <<"1">>

\* The loop over the records, from record i on.
RECURSIVE find_from(_, _, _)
find_from(properties, i, query_lower) ==
    IF i > Len(properties) THEN NoRecord
    ELSE IF matches(properties[i], query_lower) THEN properties[i]
    ELSE find_from(properties, i + 1, query_lower)

\* A best-match scan: an exact nickname on any record wins over the rest.
find_property_best_match(properties, query) ==
    LET q == lower(query)
        exact == {i \in 1..Len(properties) :
                     q = lower(sys_get(properties[i].system, <<"n","i","c","k","n","a","m","e">>, << >>))}
    IN  IF exact # {} THEN properties[CHOOSE i \in exact : \A j \in exact : i <= j]
        ELSE find_from(properties, 1, q)

\* find_property on the records its own fetch returned.
find_property(properties, query) == find_from(properties, 1, lower(query))

(***************************************************************************)
(* get_all_properties                                                      *)
(***************************************************************************)
CouldNotLoad == <<"I","'","m"," ","s","o","r","r","y",","," ","I"," ","c","o","u","l","d","n","'","t"," ","l","o","a","d"," ","p","r","o","p","e","r","t","y"," ","i","n","f","o","r","m","a","t","i","o","n"," ","r","i","g","h","t"," ","n","o","w","."," ","P","l","e","a","s","e"," ","t","r","y"," ","a","g","a","i","n"," ","l","a","t","e","r",".">>

\* The sentence of one record.
summary_rent_key(p) ==
    LET sys == p.system
        name == sys_get(sys, <<"n","a","m","e">>, <<"U","n","k","n","o","w","n"," ","P","r","o","p","e","r","t","y">>)
        city == sys_get(sys, <<"c","i","t","y">>, << >>)
        state == sys_get(sys, <<"s","t","a","t","e">>, << >>)
        bedrooms == sys_get(sys, <<"b","e","d","r","o","o","m","s">>, <<"U","n","k","n","o","w","n">>)
        rent == sys_get(sys, <<"r","e","n","t">>, <<"C","o","n","t","a","c","t"," ","f","o","r"," ","p","r","i","c","i","n","g">>)
        location == IF city # << >> /\ state # << >> THEN city \o <<","," ">> \o state ELSE << >>
    IN  <<"T","h","e"," ">> \o name \o <<" ","i","n"," ">> \o location \o <<" ","i","s"," ","a"," ">> \o bedrooms
            \o <<" ","b","e","d","r","o","o","m"," ","f","o","r"," ","$">> \o rent \o <<" ","p","e","r"," ","m","o","n","t","h",".">>
summary(p) ==
    LET sys == p.system
        name == sys_get(sys, <<"n","a","m","e">>, <<"U","n","k","n","o","w","n"," ","P","r","o","p","e","r","t","y">>)
        city == sys_get(sys, <<"c","i","t","y">>, << >>)
        state == sys_get(sys, <<"s","t","a","t","e">>, << >>)
        bedrooms == sys_get(sys, <<"b","e","d","r","o","o","m","s">>, <<"U","n","k","n","o","w","n">>)
        rent == sys_get(sys, <<"m","o","n","t","h","l","y","_","r","e","n","t">>, <<"C","o","n","t","a","c","t"," ","f","o","r"," ","p","r","i","c","i","n","g">>)
        location == IF city # << >> /\ state # << >> THEN city \o <<","," ">> \o state ELSE << >>
    IN  <<"T","h","e"," ">> \o name \o <<" ","i","n"," ">> \o location \o <<" ","i","s"," ","a"," ">> \o bedrooms
            \o <<" ","b","e","d","r","o","o","m"," ","f","o","r"," ","$">> \o rent \o <<" ","p","e","r"," ","m","o","n","t","h",".">>

get_all_properties_first(properties) ==
    IF properties = << >> THEN CouldNotLoad ELSE summary(properties[1])
get_all_properties(properties) ==
    IF properties = << >> THEN CouldNotLoad
    ELSE join(<<" ">>, [i \in 1..Len(properties) |-> summary(properties[i])])

(***************************************************************************)
(* get_property_details                                                    *)
(***************************************************************************)
\* The not-found message, from the records of the second fetch.
hint_first_only(properties) ==
    IF properties = << >> THEN << >>
    ELSE <<sys_get(properties[1].system, <<"n","i","c","k","n","a","m","e">>, <<"u","n","k","n","o","w","n">>)>>
available(properties) ==
    [i \in 1..Len(properties) |-> sys_get(properties[i].system, <<"n","i","c","k","n","a","m","e">>, <<"u","n","k","n","o","w","n">>)]

details_not_found(property_name, properties) ==
    <<"I"," ","c","o","u","l","d","n","'","t"," ","f","i","n","d"," ","a"," ","p","r","o","p","e","r","t","y"," ","m","a","t","c","h","i","n","g"," ","'">> \o property_name
        \o <<"'","."," ","W","e"," ","h","a","v","e"," ","p","r","o","p","e","r","t","i","e","s"," ","i","n",":"," ">> \o join(<<","," ">>, available(properties)) \o <<".">>

\* The lines appended for the user-added context, in the dict's order.
RECURSIVE context_lines(_)
context_lines(ctx) ==
    IF ctx = << >> THEN << >>
    ELSE <<"\n">> \o title(replace(ctx[1][1], "_", <<" ">>)) \o <<":"," ">> \o ctx[1][2]
             \o context_lines(Tail(ctx))

\* The description of a matched record.
details_found(p) ==
    LET sys == p.system
        ctx == p.context
        name == sys_get(sys, <<"n","a","m","e">>, <<"t","h","e"," ","p","r","o","p","e","r","t","y">>)
        address == sys_get(sys, <<"a","d","d","r","e","s","s">>, << >>)
        city == sys_get(sys, <<"c","i","t","y">>, << >>)
        state == sys_get(sys, <<"s","t","a","t","e">>, << >>)
        city_state == IF city # << >> /\ state # << >> THEN city \o <<","," ">> \o state ELSE << >>
        bedrooms == sys_get(sys, <<"b","e","d","r","o","o","m","s">>, <<"U","n","k","n","o","w","n">>)
        bathrooms == sys_get(sys, <<"b","a","t","h","r","o","o","m","s">>, <<"U","n","k","n","o","w","n">>)
        layout == sys_get(sys, <<"l","a","y","o","u","t">>, << >>)
        size == sys_get(sys, <<"s","i","z","e","_","s","q","f","t">>, << >>)
        rent == sys_get(sys, <<"m","o","n","t","h","l","y","_","r","e","n","t">>, <<"C","o","n","t","a","c","t"," ","f","o","r"," ","p","r","i","c","i","n","g">>)
        utilities == IF lower(sys_get(sys, <<"u","t","i","l","i","t","i","e","s","_","i","n","c","l","u","d","e","d">>, << >>)) = <<"t","r","u","e">>
                     THEN <<"i","n","c","l","u","d","e","d">> ELSE <<"n","o","t"," ","i","n","c","l","u","d","e","d">>
        min_stay == sys_get(sys, <<"m","i","n","i","m","u","m","_","s","t","a","y">>, <<"1">>)
        deposit == sys_get(sys, <<"d","e","p","o","s","i","t">>, << >>)
        cleaning_fee == sys_get(sys, <<"c","l","e","a","n","i","n","g","_","f","e","e">>, << >>)
        pet_deposit == sys_get(sys, <<"p","e","t","_","d","e","p","o","s","i","t">>, << >>)
        amenities == sys_get(sys, <<"a","m","e","n","i","t","i","e","s">>, << >>)
        pets == sys_get(sys, <<"p","e","t","s">>, <<"A","s","k"," ","a","b","o","u","t"," ","p","e","t"," ","p","o","l","i","c","y">>)
        smoking == sys_get(sys, <<"s","m","o","k","i","n","g">>, << >>)
        response ==
            <<"T","h","e"," ">> \o name \o <<" ","i","s"," ","l","o","c","a","t","e","d"," ","a","t"," ">> \o address \o <<" ","i","n"," ">> \o city_state \o <<".","\n">>
            \o <<"I","t","'","s"," ","a"," ">> \o bedrooms \o <<" ","b","e","d","r","o","o","m",","," ">> \o bathrooms \o <<" ","b","a","t","h","r","o","o","m"," ","u","n","i","t","."," ">> \o layout \o <<"\n">>
            \o (IF size # << >> THEN <<"T","h","e"," ","s","p","a","c","e"," ","i","s"," ">> \o size \o <<" ","s","q","u","a","r","e"," ","f","e","e","t","."," ">> ELSE << >>) \o <<"\n">>
            \o <<"M","o","n","t","h","l","y"," ","r","e","n","t"," ","i","s"," ","$">> \o rent \o <<" ","w","i","t","h"," ","u","t","i","l","i","t","i","e","s"," ">> \o utilities
            \o <<"."," ","M","i","n","i","m","u","m"," ","s","t","a","y"," ","i","s"," ">> \o min_stay \o <<" ","m","o","n","t","h",".","\n">>
            \o <<"A","m","e","n","i","t","i","e","s"," ","i","n","c","l","u","d","e",":"," ">> \o replace(amenities, ",", <<","," ">>) \o <<".","\n">>
            \o <<"P","e","t"," ","p","o","l","i","c","y",":"," ">> \o pets \o <<"."," ">>
            \o (IF smoking = <<"N","o","t"," ","a","l","l","o","w","e","d">> THEN <<"N","o"," ","s","m","o","k","i","n","g"," ","a","l","l","o","w","e","d",".">> ELSE << >>)
        response1 == response
            \o (IF deposit # << >> THEN <<" ","S","e","c","u","r","i","t","y"," ","d","e","p","o","s","i","t"," ","i","s"," ","$">> \o deposit \o <<" ","r","e","f","u","n","d","a","b","l","e",".">> ELSE << >>)
        response2 == response1
            \o (IF cleaning_fee # << >> THEN <<" ","T","h","e","r","e","'","s"," ","a"," ","$">> \o cleaning_fee \o <<" ","c","l","e","a","n","i","n","g"," ","f","e","e",".">> ELSE << >>)
        response3 == response2
            \o (IF pet_deposit # << >> THEN <<" ","P","e","t"," ","d","e","p","o","s","i","t"," ","i","s"," ","$">> \o pet_deposit \o <<" ","r","e","f","u","n","d","a","b","l","e",".">> ELSE << >>)
    IN  IF ctx # << >>
        THEN response3 \o <<"\n","\n","A","d","d","i","t","i","o","n","a","l"," ","i","n","f","o","r","m","a","t","i","o","n",":">> \o context_lines(ctx)
        ELSE response3

(***************************************************************************)
(* check_availability                                                      *)
(***************************************************************************)
CouldNotFind == <<"I"," ","c","o","u","l","d","n","'","t"," ","f","i","n","d"," ","t","h","a","t"," ","p","r","o","p","e","r","t","y","."," ","W","o","u","l","d"," ","y","o","u"," ","l","i","k","e"," ","t","o"," ","h","e","a","r"," ","a","b","o","u","t"," ","w","h","a","t"," ","w","e"," ","h","a","v","e"," ","a","v","a","i","l","a","b","l","e","?">>

\* The answer for a matched record: the dates as given.
availability_found_until(p, move_in, move_out) ==
    <<"T","h","e"," ">> \o sys_get(p.system, <<"n","a","m","e">>, <<"t","h","e"," ","p","r","o","p","e","r","t","y">>) \o <<" ","h","a","s"," ","a"," ","m","i","n","i","m","u","m"," ","s","t","a","y"," ","o","f"," ">>
        \o sys_get(p.system, <<"m","i","n","i","m","u","m","_","s","t","a","y">>, <<"1">>) \o <<" ","m","o","n","t","h",".","\n">>
        \o <<"F","o","r"," ","y","o","u","r"," ","d","a","t","e","s"," ","o","f"," ">> \o move_in \o <<" ","t","o"," ">>
        \o (IF DictHas(p.system, <<"a","v","a","i","l","a","b","l","e","_","u","n","t","i","l">>)
            THEN DictGet(p.system, <<"a","v","a","i","l","a","b","l","e","_","u","n","t","i","l">>, << >>) ELSE move_out)
        \o <<","," ","a","v","a","i","l","a","b","i","l","i","t","y"," ","c","h","a","n","g","e","s"," ","r","e","g","u","l","a","r","l","y"," ","b","a","s","e","d"," ","o","n"," ","b","o","o","k","i","n","g","s",".","\n">>
        \o <<"I","'","d"," ","r","e","c","o","m","m","e","n","d"," ","s","u","b","m","i","t","t","i","n","g"," ","a","n"," ","a","p","p","l","i","c","a","t","i","o","n"," ","s","o"," ","w","e"," ","c","a","n"," ","c","o","n","f","i","r","m"," ","e","x","a","c","t"," ","a","v","a","i","l","a","b","i","l","i","t","y"," ","f","o","r"," ","y","o","u","r"," ","d","a","t","e","s",".","\n">>
        \o <<"W","o","u","l","d"," ","y","o","u"," ","l","i","k","e"," ","i","n","f","o","r","m","a","t","i","o","n"," ","o","n"," ","h","o","w"," ","t","o"," ","a","p","p","l","y","?">>
availability_found(p, move_in, move_out) ==
    LET sys == p.system
        min_stay == sys_get(sys, <<"m","i","n","i","m","u","m","_","s","t","a","y">>, <<"1">>)
        name == sys_get(sys, <<"n","a","m","e">>, <<"t","h","e"," ","p","r","o","p","e","r","t","y">>)
    IN  <<"T","h","e"," ">> \o name \o <<" ","h","a","s"," ","a"," ","m","i","n","i","m","u","m"," ","s","t","a","y"," ","o","f"," ">> \o min_stay \o <<" ","m","o","n","t","h",".","\n">>
        \o <<"F","o","r"," ","y","o","u","r"," ","d","a","t","e","s"," ","o","f"," ">> \o move_in \o <<" ","t","o"," ">> \o move_out
        \o <<","," ","a","v","a","i","l","a","b","i","l","i","t","y"," ","c","h","a","n","g","e","s"," ","r","e","g","u","l","a","r","l","y"," ","b","a","s","e","d"," ","o","n"," ","b","o","o","k","i","n","g","s",".","\n">>
        \o <<"I","'","d"," ","r","e","c","o","m","m","e","n","d"," ","s","u","b","m","i","t","t","i","n","g"," ","a","n"," ","a","p","p","l","i","c","a","t","i","o","n"," ","s","o"," ","w","e"," ","c","a","n"," ","c","o","n","f","i","r","m"," ","e","x","a","c","t"," ","a","v","a","i","l","a","b","i","l","i","t","y"," ","f","o","r"," ","y","o","u","r"," ","d","a","t","e","s",".","\n">>
        \o <<"W","o","u","l","d"," ","y","o","u"," ","l","i","k","e"," ","i","n","f","o","r","m","a","t","i","o","n"," ","o","n"," ","h","o","w"," ","t","o"," ","a","p","p","l","y","?">>

check_availability(properties, property_name, move_in, move_out) ==
    LET p == find_property(properties, property_name)
    IN  IF p = NoRecord THEN CouldNotFind
        ELSE availability_found(p, move_in, move_out)

(***************************************************************************)
(* MTRAgent.save_lead                                                      *)
(***************************************************************************)
\* leads.append(lead)
replace_leads(list, lead) == <<lead>>
append_lead(list, lead) == Append(list, lead)

lead_saved(lead) ==
    <<"I","'","v","e"," ","s","a","v","e","d"," ","y","o","u","r"," ","i","n","f","o","r","m","a","t","i","o","n","."," ","S","o","m","e","o","n","e"," ","f","r","o","m"," ","o","u","r"," ","t","e","a","m"," ","w","i","l","l"," ","r","e","a","c","h"," ","o","u","t"," ","t","o"," ">> \o lead.email
        \o <<" ","w","i","t","h","i","n"," ","2","4"," ","h","o","u","r","s"," ","t","o"," ","h","e","l","p"," ","y","o","u"," ","w","i","t","h"," ","n","e","x","t"," ","s","t","e","p","s"," ","f","o","r"," ","t","h","e"," ">>
        \o (IF lead.property_interest # << >> THEN lead.property_interest ELSE <<"p","r","o","p","e","r","t","y">>)
        \o <<".">>

(***************************************************************************)
(* The result of the last completed call, as the caller sees it: the       *)
(* operation and its arguments, the records its scan used (scanned), the   *)
(* records its answer was rendered from (rendered), the record the scan    *)
(* returned (match) and the string returned (result).                      *)
(***************************************************************************)
NoLead == [name |-> << >>, email |-> << >>, property_interest |-> << >>, notes |-> << >>]
NoCall ==
    [op |-> "none", cond |-> "ok", query |-> << >>,
     move_in |-> << >>, move_out |-> << >>, scanned |-> << >>,
     rendered |-> << >>, match |-> NoRecord, lead |-> NoLead, result |-> << >>]

Sessions == 1..NumSessions
Idle == [at |-> "idle", query |-> << >>, scanned |-> << >>, lead |-> NoLead]

(***************************************************************************)
(* SpecLoad: load_properties_from_db on every bounded table.               *)
(***************************************************************************)
LoadIds == <<<<"p","1">>, <<"p","2">>>>
LoadKeys == {<<"_","n","a","m","e">>, <<"n","a","m","e">>, <<"_","_","x">>, None}
LoadValues == {<<"v">>, <<"w">>}
LoadRows == [propertyId : {LoadIds[i] : i \in 1..Len(LoadIds)}, key : LoadKeys, value : LoadValues]
IdRank(id) == CHOOSE i \in 1..Len(LoadIds) : LoadIds[i] = id

\* What the query can return: rows in propertyId order (ORDER BY "propertyId"),
\* one row per (propertyId, key) (the table's unique index, which the upsert of
\* seed_properties.py relies on).
IsQueryResult(rows) ==
    /\ \A i \in 1..Len(rows) : \A j \in 1..Len(rows) :
          i < j => /\ IdRank(rows[i].propertyId) <= IdRank(rows[j].propertyId)
                   /\ ~(rows[i].propertyId = rows[j].propertyId /\ rows[i].key = rows[j].key)
RowSeqs == {rows \in UNION {[1..n -> LoadRows] : n \in 0..MaxRows} : IsQueryResult(rows)}

InitLoad ==
    /\ DATABASE_URL \in BOOLEAN
    /\ table \in RowSeqs
    /\ leads = << >>
    /\ pc = [s \in Sessions |-> Idle]
    /\ out = NoCall
    /\ completed = 0

\* load_properties_from_db(), once on the table drawn.
LoadCall(cond) ==
    /\ out.op = "none"
    /\ out' = [NoCall EXCEPT !.op = "load", !.cond = cond,
                             !.scanned = load_properties_from_db(DATABASE_URL, cond, table)]
    /\ UNCHANGED <<DATABASE_URL, table, leads, pc, completed>>

NextLoad == \E cond \in FetchConds : LoadCall(cond)

SpecLoad == InitLoad /\ [][NextLoad]_vars

(***************************************************************************)
(* Spec: the four tools called by the sessions of one process, against a   *)
(* store that another process may change at any time.                      *)
(***************************************************************************)
Row(id, key, value) == [propertyId |-> id, key |-> key, value |-> value]

\* The record of the specification's example, under the keys it names.
StudioTable ==
    <<Row(<<"s","1">>, <<"_","n","a","m","e">>, <<"D","o","w","n","t","o","w","n"," ","S","t","u","d","i","o">>),
      Row(<<"s","1">>, <<"_","b","e","d","r","o","o","m","s">>, <<"0">>),
      Row(<<"s","1">>, <<"_","r","e","n","t">>, <<"1","8","0","0">>)>>
\* The same record with the rent under the key the code reads.
StudioRentTable ==
    <<Row(<<"s","1">>, <<"_","n","a","m","e">>, <<"D","o","w","n","t","o","w","n"," ","S","t","u","d","i","o">>),
      Row(<<"s","1">>, <<"_","b","e","d","r","o","o","m","s">>, <<"0">>),
      Row(<<"s","1">>, <<"_","m","o","n","t","h","l","y","_","r","e","n","t">>, <<"1","8","0","0">>)>>
\* The two seeded properties (seed_properties.py), their values shortened,
\* with one user-added context entry.
LanderRows ==
    <<Row(<<"4","3","3","4","4","2","_","1">>, <<"_","n","a","m","e">>, <<"B","l","u","e"," ","D","o","o","r"," ","S","t","u","d","i","o">>),
      Row(<<"4","3","3","4","4","2","_","1">>, <<"_","n","i","c","k","n","a","m","e">>, <<"l","a","n","d","e","r">>),
      Row(<<"4","3","3","4","4","2","_","1">>, <<"_","c","i","t","y">>, <<"L","a","n","d","e","r">>),
      Row(<<"4","3","3","4","4","2","_","1">>, <<"_","s","t","a","t","e">>, <<"W","y","o","m","i","n","g">>),
      Row(<<"4","3","3","4","4","2","_","1">>, <<"_","b","e","d","r","o","o","m","s">>, <<"S","t","u","d","i","o">>),
      Row(<<"4","3","3","4","4","2","_","1">>, <<"_","s","i","z","e","_","s","q","f","t">>, <<"8","0","0">>),
      Row(<<"4","3","3","4","4","2","_","1">>, <<"_","c","l","e","a","n","i","n","g","_","f","e","e">>, <<"1","0","0">>),
      Row(<<"4","3","3","4","4","2","_","1">>, <<"_","d","e","p","o","s","i","t">>, <<"1","0","0","0">>),
      Row(<<"4","3","3","4","4","2","_","1">>, <<"_","p","e","t","_","d","e","p","o","s","i","t">>, <<"4","0","0">>),
      Row(<<"4","3","3","4","4","2","_","1">>, <<"_","a","v","a","i","l","a","b","l","e","_","f","r","o","m">>, <<"A","v","a","i","l","a","b","l","e"," ","n","o","w">>),
      Row(<<"4","3","3","4","4","2","_","1">>, <<"_","a","v","a","i","l","a","b","l","e","_","u","n","t","i","l">>, <<"O","p","e","n"," ","e","n","d","e","d">>)>>
BoulderRows ==
    <<Row(<<"7","2","5","0","1","2","_","1">>, <<"_","n","a","m","e">>, <<"C","e","n","t","r","a","l","l","y"," ","L","o","c","a","t","e","d"," ","1"," ","B","d","r","m">>),
      Row(<<"7","2","5","0","1","2","_","1">>, <<"_","n","i","c","k","n","a","m","e">>, <<"b","o","u","l","d","e","r">>),
      Row(<<"7","2","5","0","1","2","_","1">>, <<"_","c","i","t","y">>, <<"B","o","u","l","d","e","r">>),
      Row(<<"7","2","5","0","1","2","_","1">>, <<"_","s","t","a","t","e">>, <<"C","o","l","o","r","a","d","o">>),
      Row(<<"7","2","5","0","1","2","_","1">>, <<"_","b","e","d","r","o","o","m","s">>, <<"1">>),
      Row(<<"7","2","5","0","1","2","_","1">>, <<"_","m","o","n","t","h","l","y","_","r","e","n","t">>, <<"2","2","0","0">>),
      Row(<<"7","2","5","0","1","2","_","1">>, <<"_","u","t","i","l","i","t","i","e","s","_","i","n","c","l","u","d","e","d">>, <<"t","r","u","e">>),
      Row(<<"7","2","5","0","1","2","_","1">>, <<"_","m","i","n","i","m","u","m","_","s","t","a","y">>, <<"1">>),
      Row(<<"7","2","5","0","1","2","_","1">>, <<"_","a","m","e","n","i","t","i","e","s">>, <<"W","i","F","i"," ","i","n","c","l","u","d","e","d",",","F","r","e","e"," ","p","a","r","k","i","n","g">>),
      Row(<<"7","2","5","0","1","2","_","1">>, <<"_","s","m","o","k","i","n","g">>, <<"N","o","t"," ","a","l","l","o","w","e","d">>),
      Row(<<"7","2","5","0","1","2","_","1">>, <<"_","a","v","a","i","l","a","b","l","e","_","f","r","o","m">>, <<"J","a","n","u","a","r","y"," ","1","5",","," ","2","0","2","5">>),
      Row(<<"7","2","5","0","1","2","_","1">>, <<"w","i","f","i","_","i","n","f","o">>, <<"5","G","H","z"," ","n","e","t","w","o","r","k">>)>>
SeedTable == LanderRows \o BoulderRows
\* A property with no system attribute at all, only a user-added note.
BareTable == <<Row(<<"b","1">>, <<"p","a","r","k","i","n","g","_","n","o","t","e">>, <<"s","t","r","e","e","t"," ","o","n","l","y">>)>>
\* A row whose key is NULL after rows that group.
NullKeyTable == LanderRows \o <<Row(<<"7","2","5","0","1","2","_","1">>, None, <<"x">>)>>

\* The inputs of Spec (all four tools) and the wider ones of SpecQuery (the
\* three query tools).
Tables == {<< >>, StudioTable, BareTable, SeedTable}
Queries == {<<"S","t","u","d","i","o">>, <<"p","e","n","t","h","o","u","s","e">>, << >>}
DatePairs == {<<<<"M","a","r","c","h"," ","2","0","2","5">>, <<"a","s","a","p">>>>}
QueryTables == {<< >>, StudioTable, StudioRentTable, SeedTable, NullKeyTable}
QueryQueries == {<<"b","o","u","l","d","e","r">>, <<"S","t","u","d","i","o">>, <<"p","e","n","t","h","o","u","s","e">>}
QueryDatePairs == {<<<<"M","a","r","c","h"," ","2","0","2","5">>, <<"a","s","a","p">>>>, <<<<"2","0","2","5","-","0","3","-","0","1">>, << >>>>}
LeadArgs ==
    {[name |-> <<"J","a","n","e">>, email |-> <<"j","a","n","e","@","x",".","c","o","m">>, property_interest |-> << >>, notes |-> << >>],
     [name |-> <<"B","o">>, email |-> <<"b","o","@","y",".","o","r","g">>, property_interest |-> <<"b","o","u","l","d","e","r">>, notes |-> <<"p","e","t","s">>]}

Init ==
    /\ DATABASE_URL \in BOOLEAN
    /\ table \in Tables
    /\ leads = << >>
    /\ pc = [s \in Sessions |-> Idle]
    /\ out = NoCall
    /\ completed = 0

InitQuery ==
    /\ DATABASE_URL \in BOOLEAN
    /\ table \in QueryTables
    /\ leads = << >>
    /\ pc = [s \in Sessions |-> Idle]
    /\ out = NoCall
    /\ completed = 0

\* The tools are coroutines of one event loop and none of them awaits: a call
\* starts only when no other call of the process is under way.
LoopFree == \A s \in Sessions : pc[s].at = "idle"

\* Another process (the seeding script, an operator) changes the table.
StoreChange(t) ==
    /\ t # table
    /\ table' = t
    /\ UNCHANGED <<DATABASE_URL, leads, pc, out, completed>>

\* list_available_properties -> get_all_properties: one fetch.
list_available_properties(s) ==
    /\ LoopFree
    /\ \E cond \in FetchConds :
          LET properties == load_properties_from_db(DATABASE_URL, cond, table)
          IN  out' = [NoCall EXCEPT !.op = "list", !.cond = cond,
                                    !.scanned = properties, !.rendered = properties,
                                    !.result = get_all_properties(properties)]
    /\ UNCHANGED <<DATABASE_URL, table, leads, pc, completed>>

\* get_property_info -> get_property_details: find_property's fetch and scan;
\* a match is rendered at once, no match leaves the second fetch to come.
get_property_info(s, property_name) ==
    /\ LoopFree
    /\ \E cond \in FetchConds :
          LET properties == load_properties_from_db(DATABASE_URL, cond, table)
              p == find_property(properties, property_name)
          IN  IF p # NoRecord
              THEN /\ out' = [NoCall EXCEPT !.op = "detail", !.cond = cond,
                                            !.query = property_name,
                                            !.scanned = properties, !.rendered = properties,
                                            !.match = p, !.result = details_found(p)]
                   /\ pc' = pc
              ELSE /\ pc' = [pc EXCEPT ![s] = [Idle EXCEPT !.at = "detail_hints",
                                                          !.query = property_name,
                                                          !.scanned = properties]]
                   /\ out' = NoCall
    /\ UNCHANGED <<DATABASE_URL, table, leads, completed>>

\* get_property_details, no match: the second fetch and the message.
get_property_info_hints(s) ==
    /\ pc[s].at = "detail_hints"
    /\ \E cond \in FetchConds :
          LET properties == load_properties_from_db(DATABASE_URL, cond, table)
          IN  out' = [NoCall EXCEPT !.op = "detail", !.cond = cond,
                                    !.query = pc[s].query,
                                    !.scanned = pc[s].scanned, !.rendered = properties,
                                    !.result = details_not_found(pc[s].query, properties)]
    /\ pc' = [pc EXCEPT ![s] = Idle]
    /\ UNCHANGED <<DATABASE_URL, table, leads, completed>>

\* check_property_availability -> check_availability: one fetch.
check_property_availability(s, property_name, move_in_date, move_out_date) ==
    /\ LoopFree
    /\ \E cond \in FetchConds :
          LET properties == load_properties_from_db(DATABASE_URL, cond, table)
          IN  out' = [NoCall EXCEPT !.op = "avail", !.cond = cond,
                                    !.query = property_name,
                                    !.move_in = move_in_date, !.move_out = move_out_date,
                                    !.scanned = properties, !.rendered = properties,
                                    !.match = find_property(properties, property_name),
                                    !.result = check_availability(properties, property_name,
                                                                  move_in_date, move_out_date)]
    /\ UNCHANGED <<DATABASE_URL, table, leads, pc, completed>>

\* save_lead: the lead is built from the arguments, appended to the
\* process-wide list and confirmed to the caller.
save_lead(s, name, email, property_interest, notes) ==
    /\ LoopFree
    /\ completed < MaxLeads
    /\ LET lead == [name |-> name, email |-> email,
                    property_interest |-> property_interest, notes |-> notes]
       IN  /\ leads' = append_lead(leads, lead)
           /\ out' = [NoCall EXCEPT !.op = "save", !.lead = lead, !.result = lead_saved(lead)]
    /\ completed' = completed + 1
    /\ UNCHANGED <<DATABASE_URL, table, pc>>

Next ==
    \/ \E t \in Tables : StoreChange(t)
    \/ \E s \in Sessions : list_available_properties(s)
    \/ \E s \in Sessions : \E q \in Queries : get_property_info(s, q)
    \/ \E s \in Sessions : get_property_info_hints(s)
    \/ \E s \in Sessions : \E q \in Queries : \E d \in DatePairs :
          check_property_availability(s, q, d[1], d[2])
    \/ \E s \in Sessions : \E a \in LeadArgs :
          save_lead(s, a.name, a.email, a.property_interest, a.notes)

Spec == Init /\ [][Next]_vars

NextQuery ==
    \/ \E t \in QueryTables : StoreChange(t)
    \/ \E s \in Sessions : list_available_properties(s)
    \/ \E s \in Sessions : \E q \in QueryQueries : get_property_info(s, q)
    \/ \E s \in Sessions : get_property_info_hints(s)
    \/ \E s \in Sessions : \E q \in QueryQueries : \E d \in QueryDatePairs :
          check_property_availability(s, q, d[1], d[2])

SpecQuery == InitQuery /\ [][NextQuery]_vars

(***************************************************************************)
(* SpecFind: find_property on every bounded list of records and query.     *)
(***************************************************************************)
MaxRecords == 2

FindIds == <<<<"f","1">>, <<"f","2">>, <<"f","3">>, <<"f","4">>>>
\* The attributes find_property reads, each absent (None) or present.
Profiles ==
    {[nickname |-> n, city |-> c, name |-> nb[1], bedrooms |-> nb[2]] :
        n \in {None, <<"b","o","u","l","d","e","r">>}, c \in {None, <<"B","o","u","l","d","e","r">>},
        nb \in {<<None, None>>, <<<<"S","t","u","d","i","o"," ","L","o","f","t">>, None>>, <<None, <<"S","t","u","d","i","o">>>>, <<None, <<"1">>>>}}
IsPresent(r) == r.value # None
\* The rows of one property: a user-added note and its present attributes.
ProfileRows(id, prof) ==
    SelectSeq(<<Row(id, <<"n","o","t","e">>, <<"x">>),
                Row(id, <<"_","n","i","c","k","n","a","m","e">>, prof.nickname),
                Row(id, <<"_","c","i","t","y">>, prof.city),
                Row(id, <<"_","n","a","m","e">>, prof.name),
                Row(id, <<"_","b","e","d","r","o","o","m","s">>, prof.bedrooms)>>, IsPresent)
RECURSIVE TablesOfLen(_)
TablesOfLen(n) ==
    IF n = 0 THEN {<< >>}
    ELSE {t \o ProfileRows(FindIds[n], prof) : t \in TablesOfLen(n - 1), prof \in Profiles}
FindTables == UNION {TablesOfLen(n) : n \in 0..MaxRecords}
FindQueries ==
    {<<"b","o","u","l","d","e","r">>, <<"B","O","U","L","D","E","R">>, <<"n","o","r","t","h"," ","b","o","u","l","d","e","r">>, <<"s","t","u","d","i","o">>, <<"l","o","f","t">>,
     <<"o","n","e"," ","b","e","d","r","o","o","m">>, <<"1">>, <<"2","-","b","e","d","r","o","o","m">>, << >>, <<"p","e","n","t","h","o","u","s","e">>}

InitFind ==
    /\ DATABASE_URL = TRUE
    /\ table \in FindTables
    /\ leads = << >>
    /\ pc = [s \in Sessions |-> Idle]
    /\ out = NoCall
    /\ completed = 0

\* find_property(query), once on the table drawn: its fetch and its scan.
FindCall(query) ==
    /\ out.op = "none"
    /\ LET properties == load_properties_from_db(DATABASE_URL, "ok", table)
       IN  out' = [NoCall EXCEPT !.op = "find", !.query = query,
                                 !.scanned = properties, !.rendered = properties,
                                 !.match = find_property(properties, query)]
    /\ UNCHANGED <<DATABASE_URL, table, leads, pc, completed>>

NextFind == \E q \in FindQueries : FindCall(q)

SpecFind == InitFind /\ [][NextFind]_vars

(***************************************************************************)
(* Claims about load_properties_from_db (checked under SpecLoad).          *)
(***************************************************************************)
\* A backing-store condition under which the load cannot complete: no
\* connection string, connect fails, the query fails, or a row cannot be
\* grouped.
LoadFailed ==
    \/ ~DATABASE_URL
    \/ out.cond # "ok"
    \/ \E i \in 1..Len(table) : table[i].key = None

\* The row is held by the record of its propertyId: in system under the key
\* minus one leading marker, or in context under the key as it is.
RowStored(list, row) ==
    \E n \in 1..Len(list) :
        /\ list[n].id = row.propertyId
        /\ IF startswith(row.key, <<"_">>)
           THEN \E e \in 1..Len(list[n].system) :
                    /\ <<"_">> \o list[n].system[e][1] = row.key
                    /\ list[n].system[e][2] = row.value
           ELSE \E e \in 1..Len(list[n].context) :
                    list[n].context[e] = <<row.key, row.value>>

\* C1: load_properties_from_db fails soft and is all-or-nothing: under every
\* failing store condition the call returns the empty list (and so raises
\* nothing); otherwise the list holds every fetched row; a non-empty list is
\* never built from a prefix of the rows.
C1_FailSoftAllOrNothing ==
    out.op = "load" =>
        /\ LoadFailed => out.scanned = << >>
        /\ ~LoadFailed => \A i \in 1..Len(table) : RowStored(out.scanned, table[i])
        /\ out.scanned # << >> => \A i \in 1..Len(table) : RowStored(out.scanned, table[i])

\* C1's case: the store answers, a first row groups and a later one raises.
C1_Witness ==
    /\ out.op = "load" /\ DATABASE_URL /\ out.cond = "ok"
    /\ Len(table) >= 2 /\ table[1].key # None /\ table[2].key = None
    /\ out.scanned = << >>

\* The distinct propertyIds of the rows, in first-seen order.
FirstSeenIds(rows) ==
    LET first == {i \in 1..Len(rows) :
                     \A j \in 1..(i - 1) : rows[j].propertyId # rows[i].propertyId}
        order == CHOOSE f \in [1..Cardinality(first) -> first] :
                     \A a \in 1..Cardinality(first) : \A b \in 1..Cardinality(first) :
                         a < b => f[a] < f[b]
    IN  [n \in 1..Cardinality(first) |-> rows[order[n]].propertyId]

\* The rows permuted within the groups: every position keeps its propertyId.
GroupPermutations(rows) ==
    {[i \in 1..Len(rows) |-> rows[p[i]]] :
        p \in {q \in [1..Len(rows) -> 1..Len(rows)] :
                  /\ \A a \in 1..Len(rows) : \E b \in 1..Len(rows) : q[b] = a
                  /\ \A a \in 1..Len(rows) : rows[q[a]].propertyId = rows[a].propertyId}}

\* Two dicts are equal (Python ==): the same items, in any insertion order.
DictEq(d, e) == {d[i] : i \in 1..Len(d)} = {e[i] : i \in 1..Len(e)}
SameRecords(a, b) ==
    /\ Len(a) = Len(b)
    /\ \A n \in 1..Len(a) :
          /\ a[n].id = b[n].id
          /\ DictEq(a[n].system, b[n].system)
          /\ DictEq(a[n].context, b[n].context)

\* C10: a completed load holds one record per distinct propertyId in
\* first-seen order; every row is in its record, a marked key in system minus
\* one leading marker and any other key in context as it is, and the record
\* holds nothing else; permuting the rows within the groups gives equal records.
C10_Grouping ==
    (out.op = "load" /\ ~LoadFailed) =>
        /\ [n \in 1..Len(out.scanned) |-> out.scanned[n].id] = FirstSeenIds(table)
        /\ \A i \in 1..Len(table) : RowStored(out.scanned, table[i])
        /\ \A n \in 1..Len(out.scanned) :
              Len(out.scanned[n].system) + Len(out.scanned[n].context)
                  = Cardinality({i \in 1..Len(table) : table[i].propertyId = out.scanned[n].id})
        /\ \A rows2 \in GroupPermutations(table) :
              SameRecords(load_properties_from_db(TRUE, "ok", rows2), out.scanned)

\* C10's case: two groups, a doubly marked key and a context key.
C10_Witness ==
    /\ out.op = "load" /\ ~LoadFailed
    /\ Len(out.scanned) = 2
    /\ \E n \in 1..2 : DictHas(out.scanned[n].system, <<"_","x">>)
    /\ \E n \in 1..2 : Len(out.scanned[n].context) > 0 /\ Len(out.scanned[n].system) > 0

(***************************************************************************)
(* Claims about find_property (checked under SpecFind).                    *)
(***************************************************************************)
\* The attribute as find_property compares it: lower-cased, empty when absent.
Attr(rec, key) ==
    lower(IF DictHas(rec.system, key)
          THEN rec.system[CHOOSE e \in 1..Len(rec.system) : rec.system[e][1] = key][2]
          ELSE << >>)

\* The five predicates on lower-cased text: nickname equality, city substring
\* either way, name contains the query, bedrooms substring either way, and
\* the studio / 1 / one special case.  A substring test on city, name or
\* bedrooms applies to a non-empty attribute.
Satisfies(rec, q) ==
    \/ q = Attr(rec, <<"n","i","c","k","n","a","m","e">>)
    \/ /\ Attr(rec, <<"c","i","t","y">>) # << >>
       /\ contains(Attr(rec, <<"c","i","t","y">>), q) \/ contains(q, Attr(rec, <<"c","i","t","y">>))
    \/ /\ Attr(rec, <<"n","a","m","e">>) # << >>
       /\ contains(Attr(rec, <<"n","a","m","e">>), q)
    \/ /\ Attr(rec, <<"b","e","d","r","o","o","m","s">>) # << >>
       /\ contains(Attr(rec, <<"b","e","d","r","o","o","m","s">>), q) \/ contains(q, Attr(rec, <<"b","e","d","r","o","o","m","s">>))
    \/ contains(q, <<"s","t","u","d","i","o">>) /\ Attr(rec, <<"b","e","d","r","o","o","m","s">>) = <<"s","t","u","d","i","o">>
    \/ (contains(q, <<"1">>) \/ contains(q, <<"o","n","e">>)) /\ Attr(rec, <<"b","e","d","r","o","o","m","s">>) = <<"1">>

\* C3: find_property returns the first record in list order that satisfies
\* any of the five predicates on lower-cased text, and no record exactly when
\* none does; queries that differ only in letter case resolve alike.
C3_FirstMatchWins ==
    out.op = "find" =>
        LET q == lower(out.query)
            hits == {i \in 1..Len(out.scanned) : Satisfies(out.scanned[i], q)}
        IN  /\ hits = {} => out.match = NoRecord
            /\ hits # {} => out.match = out.scanned[CHOOSE i \in hits : \A j \in hits : i <= j]
            /\ \A q2 \in FindQueries :
                  lower(q2) = q => find_property(out.scanned, q2) = out.match

\* C3's case: record A matches the query by city only, a later record B has
\* the query as its nickname, the query is in upper case, and A is returned.
C3_Witness ==
    /\ out.op = "find" /\ out.query = <<"B","O","U","L","D","E","R">>
    /\ Len(out.scanned) >= 2
    /\ Attr(out.scanned[1], <<"c","i","t","y">>) = <<"b","o","u","l","d","e","r">>
    /\ Attr(out.scanned[1], <<"n","i","c","k","n","a","m","e">>) = << >>
    /\ Attr(out.scanned[1], <<"n","a","m","e">>) = << >>
    /\ Attr(out.scanned[1], <<"b","e","d","r","o","o","m","s">>) = << >>
    /\ Attr(out.scanned[2], <<"n","i","c","k","n","a","m","e">>) = <<"b","o","u","l","d","e","r">>
    /\ out.match = out.scanned[1]

(***************************************************************************)
(* Claims about the tools.                                                 *)
(***************************************************************************)
\* The places where t occurs in s, and the n-th of a set of numbers.
Occurrences(s, t) ==
    {i \in 1..(Len(s) - Len(t) + 1) : \A j \in 1..Len(t) : s[i + j - 1] = t[j]}
Nth(S, n) == CHOOSE x \in S : Cardinality({y \in S : y < x}) = n - 1
endswith(s, t) == Len(s) >= Len(t) /\ \A j \in 1..Len(t) : s[Len(s) - Len(t) + j] = t[j]

\* The attribute as stored, or the placeholder when it is absent.
AttrOr(rec, key, placeholder) ==
    IF DictHas(rec.system, key)
    THEN rec.system[CHOOSE e \in 1..Len(rec.system) : rec.system[e][1] = key][2]
    ELSE placeholder

\* C2: every tool returns a non-empty str, whatever the input and the store;
\* an attribute absent from the matched record appears as its fixed default.
C2_NoFatalPath ==
    out.op # "none" =>
        /\ IsStr(out.result) /\ out.result # << >>
        /\ (out.op = "detail" /\ out.match # NoRecord) =>
              LET has(key) == DictHas(out.match.system, key)
              IN  /\ ~has(<<"n","a","m","e">>) => startswith(out.result, <<"T","h","e"," ","t","h","e"," ","p","r","o","p","e","r","t","y"," ","i","s"," ","l","o","c","a","t","e","d"," ","a","t"," ">>)
                  /\ ~has(<<"b","e","d","r","o","o","m","s">>) => contains(out.result, <<"I","t","'","s"," ","a"," ","U","n","k","n","o","w","n"," ","b","e","d","r","o","o","m",","," ">>)
                  /\ ~has(<<"b","a","t","h","r","o","o","m","s">>) => contains(out.result, <<","," ","U","n","k","n","o","w","n"," ","b","a","t","h","r","o","o","m"," ","u","n","i","t","."," ">>)
                  /\ ~has(<<"m","o","n","t","h","l","y","_","r","e","n","t">>) =>
                        contains(out.result, <<"M","o","n","t","h","l","y"," ","r","e","n","t"," ","i","s"," ","$","C","o","n","t","a","c","t"," ","f","o","r"," ","p","r","i","c","i","n","g"," ","w","i","t","h"," ","u","t","i","l","i","t","i","e","s"," ">>)
                  /\ ~has(<<"u","t","i","l","i","t","i","e","s","_","i","n","c","l","u","d","e","d">>) => contains(out.result, <<" ","w","i","t","h"," ","u","t","i","l","i","t","i","e","s"," ","n","o","t"," ","i","n","c","l","u","d","e","d",".">>)
                  /\ ~has(<<"m","i","n","i","m","u","m","_","s","t","a","y">>) => contains(out.result, <<" ","M","i","n","i","m","u","m"," ","s","t","a","y"," ","i","s"," ","1"," ","m","o","n","t","h",".">>)
                  /\ ~has(<<"p","e","t","s">>) => contains(out.result, <<"P","e","t"," ","p","o","l","i","c","y",":"," ","A","s","k"," ","a","b","o","u","t"," ","p","e","t"," ","p","o","l","i","c","y","."," ">>)
        /\ (out.op = "avail" /\ out.match # NoRecord) =>
              /\ ~DictHas(out.match.system, <<"n","a","m","e">>) =>
                    startswith(out.result, <<"T","h","e"," ","t","h","e"," ","p","r","o","p","e","r","t","y"," ","h","a","s"," ","a"," ","m","i","n","i","m","u","m"," ","s","t","a","y"," ","o","f"," ">>)
              /\ ~DictHas(out.match.system, <<"m","i","n","i","m","u","m","_","s","t","a","y">>) =>
                    contains(out.result, <<" ","h","a","s"," ","a"," ","m","i","n","i","m","u","m"," ","s","t","a","y"," ","o","f"," ","1"," ","m","o","n","t","h",".">>)
        /\ (out.op = "list" /\ out.scanned # << >>) =>
              /\ ~DictHas(out.scanned[1].system, <<"n","a","m","e">>) =>
                    startswith(out.result, <<"T","h","e"," ","U","n","k","n","o","w","n"," ","P","r","o","p","e","r","t","y"," ","i","n"," ">>)

\* C2's case: a matched record with no attribute at all was described.
C2_Witness ==
    /\ out.op = "detail" /\ out.match # NoRecord /\ out.match.system = << >>
    /\ Len(out.result) > 0

\* C4: get_all_properties returns the fixed fallback for no record, and for N
\* records N sentences in record order, the n-th showing the n-th record's
\* rent, or "Contact for pricing" when it has none.
C4_SummarizeAll ==
    out.op = "list" =>
        /\ out.scanned = << >> => out.result = CouldNotLoad
        /\ out.scanned # << >> =>
              LET ends == Occurrences(out.result, <<" ","p","e","r"," ","m","o","n","t","h",".">>)
                  from(n) == IF n = 1 THEN 1 ELSE Nth(ends, n - 1) + Len(<<" ","p","e","r"," ","m","o","n","t","h",".">>)
                  sentence(n) == SubSeq(out.result, from(n), Nth(ends, n) + Len(<<" ","p","e","r"," ","m","o","n","t","h",".">>) - 1)
              IN  /\ Cardinality(ends) = Len(out.scanned)
                  /\ \A n \in 1..Len(out.scanned) :
                        /\ contains(sentence(n),
                                    <<" ","b","e","d","r","o","o","m"," ","f","o","r"," ","$">>
                                        \o AttrOr(out.scanned[n], <<"m","o","n","t","h","l","y","_","r","e","n","t">>, <<"C","o","n","t","a","c","t"," ","f","o","r"," ","p","r","i","c","i","n","g">>)
                                        \o <<" ","p","e","r"," ","m","o","n","t","h",".">>)
                        /\ contains(sentence(n),
                                    <<"T","h","e"," ">> \o AttrOr(out.scanned[n], <<"n","a","m","e">>, <<"U","n","k","n","o","w","n"," ","P","r","o","p","e","r","t","y">>) \o <<" ","i","n"," ">>)

\* C4's case: two records, the first without a rent, the second with one.
C4_Witness ==
    /\ out.op = "list" /\ Len(out.scanned) = 2
    /\ ~DictHas(out.scanned[1].system, <<"m","o","n","t","h","l","y","_","r","e","n","t">>)
    /\ DictHas(out.scanned[2].system, <<"m","o","n","t","h","l","y","_","r","e","n","t">>)

\* The single record of the example: name "Downtown Studio", bedrooms "0" and
\* "1800" under the key given.
IsExample(list, rent_key) ==
    /\ Len(list) = 1
    /\ DictEq(list[1].system,
              <<<<<<"n","a","m","e">>, <<"D","o","w","n","t","o","w","n"," ","S","t","u","d","i","o">>>>, <<<<"b","e","d","r","o","o","m","s">>, <<"0">>>>, <<rent_key, <<"1","8","0","0">>>>>>)

\* C5 as stated: for the example record with the rent under "rent", the
\* summary includes "studio" and "1800".
C5_AsStated ==
    (out.op = "list" /\ IsExample(out.scanned, <<"r","e","n","t">>)) =>
        contains(out.result, <<"s","t","u","d","i","o">>) /\ contains(out.result, <<"1","8","0","0">>)

\* C5 as amended: for the example record with the rent under "monthly_rent",
\* the summary shows the bedroom count as stored ("a 0 bedroom") and "$1800";
\* with the rent under "rent" it shows "Contact for pricing" and no "1800".
C5_Amended ==
    out.op = "list" =>
        /\ IsExample(out.scanned, <<"m","o","n","t","h","l","y","_","r","e","n","t">>) =>
              /\ contains(out.result, <<" ","i","s"," ","a"," ","0"," ","b","e","d","r","o","o","m"," ","f","o","r"," ","$","1","8","0","0"," ","p","e","r"," ","m","o","n","t","h",".">>)
              /\ ~contains(out.result, <<"s","t","u","d","i","o">>)
        /\ IsExample(out.scanned, <<"r","e","n","t">>) =>
              /\ contains(out.result, <<" ","i","s"," ","a"," ","0"," ","b","e","d","r","o","o","m"," ","f","o","r"," ","$","C","o","n","t","a","c","t"," ","f","o","r"," ","p","r","i","c","i","n","g"," ","p","e","r"," ","m","o","n","t","h",".">>)
              /\ ~contains(out.result, <<"1","8","0","0">>)

C5_Witness ==
    /\ out.op = "list" /\ IsExample(out.scanned, <<"m","o","n","t","h","l","y","_","r","e","n","t">>)
    /\ contains(out.result, <<"1","8","0","0">>)

\* C6: get_property_details on a query that matches no record returns a
\* non-empty str that holds the query as given and ends with one hint per
\* record fetched for the message, the nickname or "unknown", also when no
\* record could be fetched.
C6_NotFoundMessage ==
    (out.op = "detail" /\ out.match = NoRecord) =>
        /\ IsStr(out.result) /\ out.result # << >>
        /\ contains(out.result, <<"'">> \o out.query \o <<"'">>)
        /\ endswith(out.result,
                    <<" ","i","n",":"," ">>
                        \o join(<<","," ">>, [n \in 1..Len(out.rendered) |->
                                           AttrOr(out.rendered[n], <<"n","i","c","k","n","a","m","e">>, <<"u","n","k","n","o","w","n">>)])
                        \o <<".">>)

\* C6's case: the message lists a nickname and an "unknown".
C6_Witness ==
    /\ out.op = "detail" /\ out.match = NoRecord /\ out.query = <<"p","e","n","t","h","o","u","s","e">>
    /\ \E n \in 1..Len(out.rendered) : ~DictHas(out.rendered[n].system, <<"n","i","c","k","n","a","m","e">>)
    /\ contains(out.result, <<"u","n","k","n","o","w","n">>)

\* The records without their available_from / available_until attributes.
IsNotAvailability(e) == e[1] # <<"a","v","a","i","l","a","b","l","e","_","f","r","o","m">> /\ e[1] # <<"a","v","a","i","l","a","b","l","e","_","u","n","t","i","l">>
StripAvailability(list) ==
    [n \in 1..Len(list) |-> [list[n] EXCEPT !.system = SelectSeq(@, IsNotAvailability)]]

\* C7: check_availability on a match echoes move_in and move_out as given
\* and returns what it returns without the record's available_from and
\* available_until; on no match it returns the fixed message.
C7_AvailabilityEcho ==
    out.op = "avail" =>
        /\ out.match # NoRecord =>
              /\ contains(out.result,
                          <<"F","o","r"," ","y","o","u","r"," ","d","a","t","e","s"," ","o","f"," ">> \o out.move_in \o <<" ","t","o"," ">> \o out.move_out \o <<",">>)
              /\ out.result = check_availability(StripAvailability(out.scanned), out.query,
                                                 out.move_in, out.move_out)
        /\ out.match = NoRecord => out.result = CouldNotFind

\* C7's case: the matched record has an available_until.
C7_Witness ==
    /\ out.op = "avail" /\ out.match # NoRecord
    /\ DictHas(out.match.system, <<"a","v","a","i","l","a","b","l","e","_","u","n","t","i","l">>)
    /\ out.move_out = <<"a","s","a","p">>

\* C8: the lead list is append-only: a step that completes a save_lead call
\* appends exactly the submitted lead and returns a str holding its email;
\* any other step leaves the list as it is; the list holds as many entries as
\* save_lead calls have completed.
C8_LeadsAppendOnly ==
    [][/\ completed' = completed + 1 =>
              /\ out'.op = "save"
              /\ leads' = Append(leads, out'.lead)
              /\ out'.lead \in LeadArgs
              /\ contains(out'.result, out'.lead.email)
       /\ completed' = completed => leads' = leads
       /\ Len(leads') = completed']_vars

\* C8's case: two different leads were saved, in their order.
C8_Witness ==
    /\ Len(leads) >= 2 /\ leads[1] # leads[2]
    /\ out.op = "save" /\ out.lead = leads[Len(leads)]

\* C9: a query operation is computed from one fetch snapshot: the records
\* its scan used are the records its answer was rendered from.
C9_SingleSnapshot ==
    out.op \in {"list", "detail", "avail"} => out.scanned = out.rendered

====
